---- MODULE Spec2Model ----
(***************************************************************************)
(* Model of src/validators/domain_checker.py: the DomainChecker class, the *)
(* demonstration script under "if __name__ == '__main__'", and two threads *)
(* sharing one DomainChecker instance.                                     *)
(*                                                                         *)
(* The win32 calls are the environment: each call either returns a value   *)
(* or raises (pywintypes.error, a subclass of Exception).  An outcome is   *)
(* Ok(v) or Err.  A Python call ends in Return(v) or Raise(e).             *)
(***************************************************************************)
EXTENDS Integers, FiniteSets, Sequences, TLC

VARIABLES
    domain_info,   \* self.domain_info of the DomainChecker instance
    op,            \* name of the method the caller invoked last ("none" at first)
    result,        \* how that invocation ended: Return(v) or Raise(e)
    os,            \* what the win32 calls answered (or would answer) during it
    queried,       \* history: is_domain_joined has been called at least once
    demo,          \* the __main__ script: position, locals, stdout, exit
    thr,           \* per thread: position and locals inside is_domain_joined
    last_writer    \* history: the thread whose line-55 store came last (0: none)

vars == <<domain_info, op, result, os, queried, demo, thr, last_writer>>

----------------------------------------------------------------------------
(* Bounds of the environment *)

\* NetGetJoinInformation answers a code in -MaxCode..MaxCode
MaxCode == 4

Codes == (0 - MaxCode)..MaxCode

\* 'langroup' values NetWkstaGetInfo can answer
LangroupNames == {"CORP", "WORKGROUP"}

\* values GetComputerName can answer
ComputerNames == {"MIPC", "PC2"}

\* values GetComputerNameEx(ComputerNameDnsFullyQualified) can answer
FullNames == {"MIPC.midominio.com", "PC2.corp.example.com"}

----------------------------------------------------------------------------
(* Values *)

\* Python's None
None == [none |-> TRUE]

\* outcome of a win32 call
Ok(v) == [ok |-> TRUE, val |-> v]

Err == [ok |-> FALSE]

\* outcome slot of a win32 call the method never makes
NotCalled == [called |-> FALSE]

\* end of a Python call
Return(v) == [kind |-> "return", val |-> v]

Raise(e) == [kind |-> "raise", val |-> e]

WkstaOutcomes == {Ok(n) : n \in LangroupNames} \cup {Err}

JoinOutcomes == {Ok(c) : c \in Codes} \cup {Err}

NameOutcomes == {Ok(n) : n \in ComputerNames} \cup {Err}

FqdnOutcomes == {Ok(n) : n \in FullNames} \cup {Err}

----------------------------------------------------------------------------
(* DomainChecker *)

\* variant: the table kept as a list and indexed, status_list[code]; Python
\* counts a negative index from the end and raises IndexError past either end
status_list_index(code) ==
    CASE code \in {0, 0 - 4} -> "Unknown"
      [] code \in {1, 0 - 3} -> "Unjoined"
      [] code \in {2, 0 - 2} -> "Workgroup"
      [] code \in {3, 0 - 1} -> "Domain"
      [] OTHER              -> "Unknown"

\* status_map.get(code, 'Unknown')
status_map_get(code) ==
    CASE code = 0 -> "Unknown"
      [] code = 1 -> "Unjoined"
      [] code = 2 -> "Workgroup"
      [] code = 3 -> "Domain"
      [] OTHER    -> "Unknown"

\* variant: _get_join_status without its except clause
join_status_reraise == Raise("pywintypes.error")

\* the except clause of _get_join_status
join_status_except == Return("Unknown")

\* _get_join_status, given the outcome of NetGetJoinInformation
_get_join_status(join) ==
    IF join.ok THEN Return(status_map_get(join.val))
               ELSE join_status_except

\* variant: 'is_domain': join_status != 'Workgroup'
MakeRecordNotWorkgroup(workgroup_or_domain, join_status) ==
    [name      |-> workgroup_or_domain,
     is_domain |-> (join_status # "Workgroup"),
     join_type |-> join_status]

\* the dict literal assigned to self.domain_info
MakeRecord(workgroup_or_domain, join_status) ==
    [name      |-> workgroup_or_domain,
     is_domain |-> (join_status = "Domain"),
     join_type |-> join_status]

\* variant: the new values written into the dict already stored, key by key,
\* the name written only when nothing was stored
StoreMerged(info_before, rec) ==
    IF info_before = None
    THEN rec
    ELSE [info_before EXCEPT !.is_domain = rec.is_domain,
                             !.join_type = rec.join_type]

\* self.domain_info = {...}: the attribute is rebound to the new dict
StoreRecord(info_before, rec) == rec

\* the except clause of is_domain_joined: self.domain_info is left as it was
domain_joined_except(info_before) ==
    [ret |-> Return(FALSE), domain_info |-> info_before]

\* is_domain_joined, given self.domain_info before the call and the outcomes
\* of NetWkstaGetInfo and NetGetJoinInformation; yields the end of the call
\* and self.domain_info after it
is_domain_joined(info_before, wksta, join) ==
    IF ~wksta.ok
    THEN domain_joined_except(info_before)
    ELSE LET js == _get_join_status(join) IN
         IF js.kind = "raise"
         THEN domain_joined_except(info_before)
         ELSE LET rec    == MakeRecord(wksta.val, js.val)
                  stored == StoreRecord(info_before, rec) IN
              [ret |-> Return(stored.is_domain), domain_info |-> stored]

\* variant: get_domain_info answering a default record when nothing is stored
get_domain_info_default(info) ==
    IF info = None
    THEN Return([name |-> "", is_domain |-> FALSE, join_type |-> "Unknown"])
    ELSE Return(info)

\* get_domain_info, given self.domain_info
get_domain_info(info) ==
    IF info = None THEN Return(None) ELSE Return(info)

\* variant: get_computer_name without its except clause
computer_name_reraise == Raise("pywintypes.error")

\* the except clause of get_computer_name
computer_name_except == Return("UNKNOWN")

\* get_computer_name, given the outcome of GetComputerName
get_computer_name(cname) ==
    IF cname.ok THEN Return(cname.val) ELSE computer_name_except

\* variant: the except clause answering the sentinel itself
full_name_sentinel(cname) == Return("UNKNOWN")

\* the except clause of get_full_computer_name
full_name_except(cname) == get_computer_name(cname)

\* get_full_computer_name, given the outcomes of GetComputerNameEx and of the
\* GetComputerName call its except clause makes
get_full_computer_name(fqdn, cname) ==
    IF fqdn.ok THEN Return(fqdn.val) ELSE full_name_except(cname)

----------------------------------------------------------------------------
(* Idle values of the parts a specification does not run *)

DemoLocals(pc) ==
    [pc |-> pc, computer_name |-> None, full_name |-> None,
     is_domain |-> None, domain_info |-> None, out |-> <<>>, exit |-> "running"]

DemoIdle == DemoLocals("idle")

Threads == {1, 2}

ThrLocals(pc) ==
    [pc |-> pc, workgroup_or_domain |-> None, join_status |-> None,
     built |-> None, ret |-> None, read_from |-> 0]

ThrIdle == [t \in Threads |-> ThrLocals("idle")]

NoOs == [wksta |-> NotCalled, join |-> NotCalled,
         cname |-> NotCalled, fqdn |-> NotCalled]

----------------------------------------------------------------------------
(* Sequential use: a caller invokes the methods of one instance in any     *)
(* order, each win32 call answering anything it can.                       *)

\* DomainChecker.__init__
Init ==
    /\ domain_info = None
    /\ op = "none"
    /\ result = Return(None)
    /\ os = NoOs
    /\ queried = FALSE
    /\ demo = DemoIdle
    /\ thr = ThrIdle
    /\ last_writer = 0

CallIsDomainJoined ==
    \E wksta \in WkstaOutcomes, join \in JoinOutcomes :
        LET r == is_domain_joined(domain_info, wksta, join) IN
        /\ op' = "is_domain_joined"
        /\ os' = [NoOs EXCEPT !.wksta = wksta, !.join = join]
        /\ result' = r.ret
        /\ domain_info' = r.domain_info
        /\ queried' = TRUE
        /\ UNCHANGED <<demo, thr, last_writer>>

CallGetJoinStatus ==
    \E join \in JoinOutcomes :
        /\ op' = "_get_join_status"
        /\ os' = [NoOs EXCEPT !.join = join]
        /\ result' = _get_join_status(join)
        /\ UNCHANGED <<domain_info, queried, demo, thr, last_writer>>

CallGetDomainInfo ==
    /\ op' = "get_domain_info"
    /\ os' = NoOs
    /\ result' = get_domain_info(domain_info)
    /\ UNCHANGED <<domain_info, queried, demo, thr, last_writer>>

CallGetComputerName ==
    \E cname \in NameOutcomes :
        /\ op' = "get_computer_name"
        /\ os' = [NoOs EXCEPT !.cname = cname]
        /\ result' = get_computer_name(cname)
        /\ UNCHANGED <<domain_info, queried, demo, thr, last_writer>>

CallGetFullComputerName ==
    \E fqdn \in FqdnOutcomes, cname \in NameOutcomes :
        /\ op' = "get_full_computer_name"
        /\ os' = [NoOs EXCEPT !.fqdn = fqdn, !.cname = cname]
        /\ result' = get_full_computer_name(fqdn, cname)
        /\ UNCHANGED <<domain_info, queried, demo, thr, last_writer>>

Next ==
    \/ CallIsDomainJoined
    \/ CallGetJoinStatus
    \/ CallGetDomainInfo
    \/ CallGetComputerName
    \/ CallGetFullComputerName

Spec == Init /\ [][Next]_vars

----------------------------------------------------------------------------
(* The script under "if __name__ == '__main__'": one statement per step.   *)
(* An exception no statement catches ends the script with that exception.  *)

InitDemo ==
    /\ domain_info = None
    /\ op = "none"
    /\ result = Return(None)
    /\ os = NoOs
    /\ queried = FALSE
    /\ demo = DemoLocals("L166")
    /\ thr = ThrIdle
    /\ last_writer = 0

\* the script after a call that ended in r: on at `next` with `locals`, or
\* dead with the exception
DemoAfter(r, locals, next) ==
    IF r.kind = "raise"
    THEN [demo EXCEPT !.pc = "done", !.exit = r.val]
    ELSE [locals EXCEPT !.pc = next]

\* computer_name = checker.get_computer_name(); print(...)
DemoComputerName ==
    /\ demo.pc = "L166"
    /\ \E cname \in NameOutcomes :
        LET r == get_computer_name(cname) IN
        /\ op' = "get_computer_name"
        /\ os' = [NoOs EXCEPT !.cname = cname]
        /\ result' = r
        /\ demo' = DemoAfter(r, [demo EXCEPT !.computer_name = r.val,
                                             !.out = Append(@, r.val)], "L170")
    /\ UNCHANGED <<domain_info, queried, thr, last_writer>>

\* full_name = checker.get_full_computer_name(); print(...)
DemoFullName ==
    /\ demo.pc = "L170"
    /\ \E fqdn \in FqdnOutcomes, cname \in NameOutcomes :
        LET r == get_full_computer_name(fqdn, cname) IN
        /\ op' = "get_full_computer_name"
        /\ os' = [NoOs EXCEPT !.fqdn = fqdn, !.cname = cname]
        /\ result' = r
        /\ demo' = DemoAfter(r, [demo EXCEPT !.full_name = r.val,
                                             !.out = Append(@, r.val)], "L175")
    /\ UNCHANGED <<domain_info, queried, thr, last_writer>>

\* is_domain = checker.is_domain_joined()
DemoIsDomainJoined ==
    /\ demo.pc = "L175"
    /\ \E wksta \in WkstaOutcomes, join \in JoinOutcomes :
        LET r == is_domain_joined(domain_info, wksta, join) IN
        /\ op' = "is_domain_joined"
        /\ os' = [NoOs EXCEPT !.wksta = wksta, !.join = join]
        /\ result' = r.ret
        /\ domain_info' = r.domain_info
        /\ demo' = DemoAfter(r.ret, [demo EXCEPT !.is_domain = r.ret.val], "L178")
    /\ queried' = TRUE
    /\ UNCHANGED <<thr, last_writer>>

\* domain_info = checker.get_domain_info()
DemoGetDomainInfo ==
    /\ demo.pc = "L178"
    /\ LET r == get_domain_info(domain_info) IN
        /\ op' = "get_domain_info"
        /\ os' = NoOs
        /\ result' = r
        /\ demo' = DemoAfter(r, [demo EXCEPT !.domain_info = r.val], "L184")
    /\ UNCHANGED <<domain_info, queried, thr, last_writer>>

\* if is_domain: print(f"   Dominio: {domain_info['name']}")
\* else:         print(f"   Workgroup: {domain_info['name']}")
\* subscripting None raises TypeError
DemoPrintName ==
    /\ demo.pc = "L184"
    /\ demo' = IF demo.domain_info = None
               THEN [demo EXCEPT !.pc = "done", !.exit = "TypeError"]
               ELSE [demo EXCEPT !.pc = "L191",
                                 !.out = Append(@, demo.domain_info.name)]
    /\ UNCHANGED <<domain_info, op, result, os, queried, thr, last_writer>>

\* print(f"\nTipo de conexión: {domain_info['join_type']}"), then the end of
\* the script
DemoPrintJoinType ==
    /\ demo.pc = "L191"
    /\ demo' = [demo EXCEPT !.pc = "done", !.exit = "normal",
                            !.out = Append(@, demo.domain_info.join_type)]
    /\ UNCHANGED <<domain_info, op, result, os, queried, thr, last_writer>>

NextDemo ==
    \/ DemoComputerName
    \/ DemoFullName
    \/ DemoIsDomainJoined
    \/ DemoGetDomainInfo
    \/ DemoPrintName
    \/ DemoPrintJoinType

SpecDemo == InitDemo /\ [][NextDemo]_vars

----------------------------------------------------------------------------
(* Two threads, each calling is_domain_joined once on the same instance.   *)
(* A step is one win32 call, the store of line 55, or the load of line 63. *)

InitConc ==
    /\ domain_info = None
    /\ op = "none"
    /\ result = Return(None)
    /\ os = NoOs
    /\ queried = FALSE
    /\ demo = DemoIdle
    /\ thr = [t \in Threads |-> ThrLocals("L42")]
    /\ last_writer = 0

\* the except clause of is_domain_joined, in thread t
ThrExcept(t) == [thr EXCEPT ![t].pc = "done", ![t].ret = FALSE]

\* info = win32net.NetWkstaGetInfo(None, 102); workgroup_or_domain = info['langroup']
ThrWkstaGetInfo(t) ==
    /\ thr[t].pc = "L42"
    /\ \E wksta \in WkstaOutcomes :
        thr' = IF wksta.ok
               THEN [thr EXCEPT ![t].pc = "L53",
                                ![t].workgroup_or_domain = wksta.val]
               ELSE ThrExcept(t)
    /\ UNCHANGED <<domain_info, op, result, os, queried, demo, last_writer>>

\* join_status = self._get_join_status()
ThrGetJoinStatus(t) ==
    /\ thr[t].pc = "L53"
    /\ \E join \in JoinOutcomes :
        LET js == _get_join_status(join) IN
        thr' = IF js.kind = "raise"
               THEN ThrExcept(t)
               ELSE [thr EXCEPT ![t].pc = "L55", ![t].join_status = js.val]
    /\ UNCHANGED <<domain_info, op, result, os, queried, demo, last_writer>>

\* self.domain_info = {'name': ..., 'is_domain': ..., 'join_type': ...}
ThrStore(t) ==
    /\ thr[t].pc = "L55"
    /\ LET rec == MakeRecord(thr[t].workgroup_or_domain, thr[t].join_status) IN
        /\ domain_info' = StoreRecord(domain_info, rec)
        /\ thr' = [thr EXCEPT ![t].pc = "L63", ![t].built = rec]
    /\ last_writer' = t
    /\ queried' = TRUE
    /\ UNCHANGED <<op, result, os, demo>>

\* return self.domain_info['is_domain']
ThrReturn(t) ==
    /\ thr[t].pc = "L63"
    /\ thr' = [thr EXCEPT ![t].pc = "done",
                          ![t].ret = domain_info.is_domain,
                          ![t].read_from = last_writer]
    /\ UNCHANGED <<domain_info, op, result, os, queried, demo, last_writer>>

NextConc ==
    \E t \in Threads :
        \/ ThrWkstaGetInfo(t)
        \/ ThrGetJoinStatus(t)
        \/ ThrStore(t)
        \/ ThrReturn(t)

SpecConc == InitConc /\ [][NextConc]_vars

----------------------------------------------------------------------------
(* Properties of sequential use (Spec) *)

C2_IsDomainIffDomain ==
    domain_info # None =>
        (domain_info.is_domain <=> domain_info.join_type = "Domain")

\* a stored record with is_domain true
C2_Witness ==
    /\ domain_info # None
    /\ domain_info.is_domain
    /\ domain_info.join_type = "Domain"

\* C3: after a call to is_domain_joined, the stored record is the one built
\* from that call's win32 answers: its name is the langroup that call saw and
\* its join_type the status that call resolved; nothing is left from before.
C3_RecordIsFromLastCall ==
    (op = "is_domain_joined" /\ domain_info # None) =>
        /\ os.wksta.ok
        /\ domain_info.name = os.wksta.val
        /\ domain_info.join_type =
              (IF os.join.ok THEN status_map_get(os.join.val) ELSE "Unknown")

\* C4: once is_domain_joined has been called, whether its win32 calls
\* succeeded or failed, a record is stored and get_domain_info returns it.
C4_PresentAfterFirstAttempt ==
    queried =>
        /\ domain_info # None
        /\ (op = "get_domain_info" => result.val # None)

C7_FqdnFallback ==
    (op = "get_full_computer_name" /\ ~os.fqdn.ok) =>
        /\ result.kind = "return"
        /\ result.val = (IF os.cname.ok THEN os.cname.val ELSE "UNKNOWN")

\* both name calls failed and the sentinel came back
C7_Witness ==
    /\ op = "get_full_computer_name"
    /\ ~os.fqdn.ok
    /\ ~os.cname.ok
    /\ result = Return("UNKNOWN")

\* C8: as long as is_domain_joined has not been called, nothing is stored and
\* get_domain_info returns None, whatever other methods were called.
C8_NoRecordBeforeQuery ==
    ~queried =>
        /\ domain_info = None
        /\ (op = "get_domain_info" => result = Return(None))

\* get_domain_info answered None on an instance never queried
C8_Witness ==
    /\ ~queried
    /\ op = "get_domain_info"
    /\ result = Return(None)

----------------------------------------------------------------------------
(* Property of the script (SpecDemo) *)

\* C9: the script runs to normal termination whatever win32 calls fail,
\* NetWkstaGetInfo included.
C9_DemoTerminatesNormally ==
    demo.pc = "done" => demo.exit = "normal"

----------------------------------------------------------------------------
(* Properties of two concurrent calls (SpecConc) *)

AllDone == \A t \in Threads : thr[t].pc = "done"

Stored(t) == thr[t].built # None

\* the record stored once both calls are over is the whole record built by
\* the call that wrote last (nothing, when neither wrote)
LastWriteWins ==
    /\ last_writer = 0 => domain_info = None
    /\ last_writer # 0 => domain_info = thr[last_writer].built

====
